---- MODULE Spec2Model ----
(***************************************************************************)
(* Usage quota engine of closetic: the limit_ai_usage decorator and        *)
(* check_ai_usage_status of app/decorators.py, over the user_activities    *)
(* table written by log_user_activity of app/activity_tracker.py.          *)
(*                                                                         *)
(* Time is counted in ticks of 1/TicksPerDay day since 2024-01-01T00:00Z   *)
(* (a Monday).  A datetime is its tick number; the calendar operators      *)
(* below give datetime's year/month/day/weekday/replace/timedelta.         *)
(***************************************************************************)
EXTENDS Integers, Sequences, FiniteSets, Bags, TLC

\* ------------------------------------------------------------------ bounds
TicksPerDay == 2
NumProcs == 2
MaxCalls == 2
MaxSeqCalls == 3
ClockSteps == 1

\* ---------------------------------------------------------------- calendar
Years == 2024 .. 2026

IsLeap(y) == (y % 4 = 0 /\ y % 100 # 0) \/ y % 400 = 0

DaysInMonth(y, m) ==
    IF m = 2 THEN (IF IsLeap(y) THEN 29 ELSE 28)
    ELSE IF m \in {4, 6, 9, 11} THEN 30 ELSE 31

DaysInYear(y) == IF IsLeap(y) THEN 366 ELSE 365

RECURSIVE DaysBeforeYear(_)
DaysBeforeYear(y) ==
    IF y <= 2024 THEN 0 ELSE DaysBeforeYear(y - 1) + DaysInYear(y - 1)

RECURSIVE DaysBeforeMonth(_, _)
DaysBeforeMonth(y, m) ==
    IF m <= 1 THEN 0 ELSE DaysBeforeMonth(y, m - 1) + DaysInMonth(y, m - 1)

\* datetime(y, m, d, 0, 0, 0, tzinfo=utc)
MakeDt(y, m, d) == (DaysBeforeYear(y) + DaysBeforeMonth(y, m) + (d - 1)) * TicksPerDay

DayNo(t) == t \div TicksPerDay

\* year, month and day of each day number, tabulated once
Civil ==
    [d \in 0 .. (DaysBeforeYear(2027) - 1) |->
        LET y == CHOOSE yy \in Years : DaysBeforeYear(yy) <= d /\ d < DaysBeforeYear(yy + 1)
            r == d - DaysBeforeYear(y)
            m == CHOOSE mm \in 1 .. 12 :
                    DaysBeforeMonth(y, mm) <= r /\ r < DaysBeforeMonth(y, mm) + DaysInMonth(y, mm)
        IN  [year |-> y, month |-> m, day |-> r - DaysBeforeMonth(y, m) + 1]]

DtYear(t) == Civil[DayNo(t)].year

DtMonth(t) == Civil[DayNo(t)].month

DtDay(t) == Civil[DayNo(t)].day

\* now.weekday(): Monday is 0
Weekday(t) == DayNo(t) % 7

\* now + timedelta(days=k)
PlusDays(t, k) == t + k * TicksPerDay

\* dt.replace(hour=0, minute=0, second=0, microsecond=0)
Midnight(t) == DayNo(t) * TicksPerDay

\* ------------------------------------------------------- tiers and endpoints
Users == {1, 2}

Endpoints == {"personal_fashion_analysis", "add_wardrobe_items"}

\* gated endpoints beyond Endpoints: POST /outfit-plans, the chatbot, the
\* camera analysis
MoreEndpoints == {"generate_monthly_outfit_plans", "fashion_chatbot", "analyze_camera_capture"}

GatedEndpoints == Endpoints \cup MoreEndpoints

\* the arguments of each @limit_ai_usage(...) decoration
DecoratorArgs(e) ==
    IF e = "personal_fashion_analysis"
    THEN [reset_period |-> "monthly", free_limit |-> 1, spotlight_limit |-> 10,
          elite_limit |-> 50, icon_limit |-> -1]
    ELSE IF e = "generate_monthly_outfit_plans"
    THEN [reset_period |-> "monthly", free_limit |-> 2, spotlight_limit |-> 8,
          elite_limit |-> 25, icon_limit |-> -1]
    ELSE IF e = "fashion_chatbot"
    THEN [reset_period |-> "daily", free_limit |-> 5, spotlight_limit |-> 20,
          elite_limit |-> 50, icon_limit |-> -1]
    ELSE IF e = "analyze_camera_capture"
    THEN [reset_period |-> "monthly", free_limit |-> 0, spotlight_limit |-> 5,
          elite_limit |-> 20, icon_limit |-> -1]
    ELSE [reset_period |-> "monthly", free_limit |-> 2, spotlight_limit |-> 10,
          elite_limit |-> 30, icon_limit |-> -1]

\* the activity row each handler logs for itself
HandlerActivity(e) ==
    IF e = "personal_fashion_analysis" THEN "personal_analysis"
    ELSE IF e = "generate_monthly_outfit_plans" THEN "monthly_outfit_plans_generated"
    ELSE IF e = "fashion_chatbot" THEN "chatbot_interaction"
    ELSE IF e = "analyze_camera_capture" THEN "camera_analyze"
    ELSE "wardrobe_items_added"

\* whether the handler still awaits a call that can fail after logging its row:
\* personal_fashion_analysis awaits check_style_compatibility in its return
\* statement, add_wardrobe_items only builds its answer
AwaitsAfterLog(e) == e = "personal_fashion_analysis"

\* the keys of tier_limits
KnownTiers == {"free", "spotlight", "elite", "icon"}

\* a pricing_tier column that is NULL: getattr gives None
NoneTier == "<None>"

\* variant: a tier that is not a key of tier_limits is unlimited
TierLimitUnknownUnlimited(cfg, user_tier) ==
    IF user_tier = "free" THEN cfg.free_limit
    ELSE IF user_tier = "spotlight" THEN cfg.spotlight_limit
    ELSE IF user_tier = "elite" THEN cfg.elite_limit
    ELSE IF user_tier = "icon" THEN cfg.icon_limit
    ELSE -1

\* tier_limits.get(user_tier, free_limit)
TierLimit(cfg, user_tier) ==
    IF user_tier = "free" THEN cfg.free_limit
    ELSE IF user_tier = "spotlight" THEN cfg.spotlight_limit
    ELSE IF user_tier = "elite" THEN cfg.elite_limit
    ELSE IF user_tier = "icon" THEN cfg.icon_limit
    ELSE cfg.free_limit

\* activity_type = f"ai_usage_{endpoint_name}", tabulated once
ActivityTypes == [endpoint_name \in GatedEndpoints |-> "ai_usage_" \o endpoint_name]

ActivityType(endpoint_name) == ActivityTypes[endpoint_name]

\* ---------------------------------------------------------------- windows
\* variant: the daily start is now itself
StartTimeNotTruncated(t, reset_period) ==
    IF reset_period = "daily" THEN t
    ELSE IF reset_period = "weekly" THEN Midnight(PlusDays(t, -Weekday(t)))
    ELSE MakeDt(DtYear(t), DtMonth(t), 1)

\* variant: the reset is an offset from now
ResetTimeFromNow(t, reset_period) ==
    IF reset_period = "daily" THEN PlusDays(t, 1)
    ELSE IF reset_period = "weekly" THEN PlusDays(t, 7)
    ELSE PlusDays(t, DaysInMonth(DtYear(t), DtMonth(t)))

\* variant: a Monday resets on the same day
ResetTimeSameMonday(t, reset_period) ==
    IF reset_period = "daily" THEN Midnight(PlusDays(t, 1))
    ELSE IF reset_period = "weekly" THEN Midnight(PlusDays(t, (7 - Weekday(t)) % 7))
    ELSE IF DtMonth(t) = 12 THEN MakeDt(DtYear(t) + 1, 1, 1)
    ELSE MakeDt(DtYear(t), DtMonth(t) + 1, 1)

\* variant: a month is 30 days long
ResetTimeThirtyDays(t, reset_period) ==
    IF reset_period = "daily" THEN Midnight(PlusDays(t, 1))
    ELSE IF reset_period = "weekly" THEN Midnight(PlusDays(t, 7 - Weekday(t)))
    ELSE PlusDays(MakeDt(DtYear(t), DtMonth(t), 1), 30)

\* start_time of limit_ai_usage.wrapper
WrapperStartTime(t, reset_period) ==
    IF reset_period = "daily" THEN Midnight(t)
    ELSE IF reset_period = "weekly" THEN Midnight(PlusDays(t, -Weekday(t)))
    ELSE IF reset_period = "monthly" THEN MakeDt(DtYear(t), DtMonth(t), 1)
    ELSE Midnight(t)

\* variant: the week of the status starts on Sunday
StatusStartFromSunday(t, reset_period) ==
    IF reset_period = "daily" THEN Midnight(t)
    ELSE IF reset_period = "weekly" THEN Midnight(PlusDays(t, -((Weekday(t) + 1) % 7)))
    ELSE MakeDt(DtYear(t), DtMonth(t), 1)

\* start_time of check_ai_usage_status
StatusStartTime(t, reset_period) ==
    IF reset_period = "daily" THEN Midnight(t)
    ELSE IF reset_period = "weekly" THEN Midnight(PlusDays(t, -Weekday(t)))
    ELSE MakeDt(DtYear(t), DtMonth(t), 1)

\* reset_time of limit_ai_usage.wrapper and of check_ai_usage_status
ResetTime(t, reset_period) ==
    IF reset_period = "daily" THEN Midnight(PlusDays(t, 1))
    ELSE IF reset_period = "weekly"
    THEN LET d == (7 - Weekday(t)) % 7
             days_until_monday == IF d = 0 THEN 7 ELSE d
         IN  Midnight(PlusDays(t, days_until_monday))
    ELSE IF DtMonth(t) = 12 THEN MakeDt(DtYear(t) + 1, 1, 1)
    ELSE MakeDt(DtYear(t), DtMonth(t) + 1, 1)

\* the counting window that contains instant t (start inclusive, end exclusive)
Window(t, reset_period) ==
    IF reset_period = "daily"
    THEN [start |-> Midnight(t), end |-> PlusDays(Midnight(t), 1)]
    ELSE IF reset_period = "weekly"
    THEN [start |-> PlusDays(Midnight(t), -Weekday(t)),
          end |-> PlusDays(Midnight(t), 7 - Weekday(t))]
    ELSE [start |-> MakeDt(DtYear(t), DtMonth(t), 1),
          end |-> IF DtMonth(t) = 12 THEN MakeDt(DtYear(t) + 1, 1, 1)
                  ELSE MakeDt(DtYear(t), DtMonth(t) + 1, 1)]

\* ----------------------------------------------------------------- ledger
\* rows of user_activities: a bag of [user_id, activity_type, timestamp]
Row(user_id, activity_type, timestamp) ==
    [user_id |-> user_id, activity_type |-> activity_type, timestamp |-> timestamp]

\* the number of rows of bag B that lie in the set S
BagSum(B, S) == BagCardinality([r \in S |-> B[r]])

\* variant: the filter on activity_type is missing
CountUsageAnyActivity(rows, user_id, activity_type, start_time) ==
    BagSum(rows, {r \in BagToSet(rows) :
                     /\ r.user_id = user_id
                     /\ r.timestamp >= start_time})

\* db.query(UserActivity).filter(user_id ==, activity_type ==, timestamp >=).count()
CountUsage(rows, user_id, activity_type, start_time) ==
    BagSum(rows, {r \in BagToSet(rows) :
                     /\ r.user_id = user_id
                     /\ r.activity_type = activity_type
                     /\ r.timestamp >= start_time})

\* db.add(activity); db.commit() with timestamp = server_default now()
LogUserActivity(rows, user_id, activity_type, t) ==
    rows (+) SetToBag({Row(user_id, activity_type, t)})

\* variant: the comparison is strict
ExceededStrict(usage_count, user_limit) == usage_count > user_limit

\* usage_count >= user_limit
Exceeded(usage_count, user_limit) == usage_count >= user_limit

\* variant: the difference is reported as it is
Max0Identity(n) == n

\* max(0, user_limit - usage_count)
Max0(n) == IF n > 0 THEN n ELSE 0

\* check_ai_usage_status: the dict it returns
check_ai_usage_status(user_id, user_tier, endpoint_name, rows, t, args) ==
    LET user_limit == TierLimit(args, user_tier)
        start_time == StatusStartTime(t, args.reset_period)
        usage_count == CountUsage(rows, user_id, ActivityType(endpoint_name), start_time)
    IN  IF user_limit = -1
        THEN [unlimited |-> TRUE, current_usage |-> 0, limit |-> -1, remaining |-> -1,
              reset_time |-> "None", tier |-> user_tier]
        ELSE [unlimited |-> FALSE, current_usage |-> usage_count, limit |-> user_limit,
              remaining |-> Max0(user_limit - usage_count),
              reset_time |-> ResetTime(t, args.reset_period), tier |-> user_tier,
              allowed |-> usage_count < user_limit]

\* check_ai_usage_status: the count queries it issues (none before the early return)
StatusLedgerReads(user_tier, args) == IF TierLimit(args, user_tier) = -1 THEN 0 ELSE 1

\* the arguments check_ai_usage passes for every endpoint_name
CheckAiUsageArgs ==
    [reset_period |-> "monthly", free_limit |-> 1, spotlight_limit |-> 10,
     elite_limit |-> 50, icon_limit |-> -1]

\* ------------------------------------------------------------------ state
VARIABLES
    now,        \* datetime.now(timezone.utc), in ticks
    tier,       \* users.pricing_tier of each user
    ledger,     \* the user_activities table
    pc,         \* where each request handler stands in wrapper
    call,       \* the locals of wrapper that are still live in each handler
    ncalls,     \* requests started so far
    last,       \* how the latest finished request ended
    lastAdmit,  \* per (user, endpoint, window): requests in flight at the last admission there
    served,     \* the requests that returned func's result: user, endpoint, instant
    status,     \* the answer of the latest check_ai_usage request
    probe       \* the window arithmetic of wrapper and check_ai_usage_status at one instant

vars == <<now, tier, ledger, pc, call, ncalls, last, lastAdmit, served, status, probe>>

Procs == 1 .. NumProcs

StartNow == MakeDt(2024, 12, 31) + 1
MaxNow == StartNow + ClockSteps

TierAssignments ==
    { [u \in Users |-> IF u = 1 THEN "free" ELSE t] : t \in {"free", "icon"} }

NoCall ==
    [user |-> 0, endpoint |-> "", user_tier |-> "", user_limit |-> 0,
     now |-> 0, start_time |-> 0, invoked |-> FALSE, reads |-> 0]

NoOutcome ==
    [user |-> 0, endpoint |-> "", result |-> "none", invoked |-> FALSE, reads |-> 0,
     detail |-> <<>>]

NoStatus == [user |-> 0, endpoint |-> "", reads |-> 0, result |-> <<>>]

NoProbe == [reset_period |-> ""]

InFlight == {"run", "log"}

Init ==
    /\ now = StartNow
    /\ tier \in TierAssignments
    /\ ledger = EmptyBag
    /\ pc = [p \in Procs |-> "idle"]
    /\ call = [p \in Procs |-> NoCall]
    /\ ncalls = 0
    /\ last = NoOutcome
    /\ lastAdmit = <<>>
    /\ served = EmptyBag
    /\ status = NoStatus
    /\ probe = NoProbe

\* the clock moves on
Tick ==
    /\ now < MaxNow
    /\ now' = now + 1
    /\ status' = NoStatus
    /\ UNCHANGED <<tier, ledger, pc, call, ncalls, last, lastAdmit, served, probe>>

\* wrapper, lines 43-99: resolve the tier limit; unlimited goes straight to func,
\* otherwise read the clock and compute start_time
Enter(p, u, e) ==
    LET cfg == DecoratorArgs(e)
        user_tier == tier[u]
        user_limit == TierLimit(cfg, user_tier)
        c0 == [NoCall EXCEPT !.user = u, !.endpoint = e,
                             !.user_tier = user_tier, !.user_limit = user_limit]
    IN  /\ pc[p] = "idle"
        /\ \A q \in Procs : q < p => pc[q] # "idle"
        /\ ncalls' = ncalls + 1
        /\ IF user_limit = -1
           THEN /\ pc' = [pc EXCEPT ![p] = "run"]
                /\ call' = [call EXCEPT ![p] = [c0 EXCEPT !.invoked = TRUE]]
           ELSE /\ pc' = [pc EXCEPT ![p] = "check"]
                /\ call' = [call EXCEPT ![p] =
                      [c0 EXCEPT !.now = now,
                                 !.start_time = WrapperStartTime(now, cfg.reset_period)]]
        /\ status' = NoStatus
        /\ UNCHANGED <<now, tier, ledger, last, lastAdmit, served, probe>>

\* a request arrives, while others may be in flight, at the lowest idle handler
Begin(p, u, e) ==
    /\ ncalls < MaxCalls
    /\ Enter(p, u, e)

\* a request arrives when no other request is in flight
BeginSeq(p, u, e) ==
    /\ ncalls < MaxSeqCalls
    /\ \A q \in Procs : pc[q] = "idle"
    /\ Enter(p, u, e)

\* the usage_count the wrapper reads at lines 105-114
UsageRead(p) ==
    CountUsage(ledger, call[p].user, ActivityType(call[p].endpoint), call[p].start_time)

\* str.title() of the reset_period values
Title(s) ==
    IF s = "daily" THEN "Daily"
    ELSE IF s = "weekly" THEN "Weekly"
    ELSE IF s = "monthly" THEN "Monthly"
    ELSE s

\* get_tier_features(tier)["name"]: tier_configs.get(tier, tier_configs["free"])
TierName(user_tier) ==
    IF user_tier = "spotlight" THEN "Spotlight"
    ELSE IF user_tier = "elite" THEN "Elite"
    ELSE IF user_tier = "icon" THEN "Icon"
    ELSE "Free"

\* the message of the HTTPException(429), line 158
Message429(reset_period, usage_count, user_limit, user_tier) ==
    Title(reset_period) \o " AI usage limit reached (" \o ToString(usage_count) \o "/"
        \o ToString(user_limit) \o " used). Upgrade to " \o TierName(user_tier)
        \o " tier for more AI calls."

\* detail of the HTTPException(429) of lines 155-168
Detail429(c, usage_count) ==
    LET cfg == DecoratorArgs(c.endpoint)
    IN  [message |-> Message429(cfg.reset_period, usage_count, c.user_limit, c.user_tier),
         upgrade_required |-> TRUE,
         current_usage |-> usage_count,
         limit |-> c.user_limit,
         reset_time |-> ResetTime(c.now, cfg.reset_period),
         current_tier |-> c.user_tier,
         tier_name |-> TierName(c.user_tier),
         reset_period |-> cfg.reset_period,
         endpoint |-> c.endpoint]

\* how the request of handler p ended
Outcome(c, result, detail) ==
    [user |-> c.user, endpoint |-> c.endpoint, result |-> result,
     invoked |-> c.invoked, reads |-> c.reads, detail |-> detail]

\* the request of handler p returns func's result now
Serve(p) ==
    served (+) SetToBag({[user |-> call[p].user, endpoint |-> call[p].endpoint, at |-> now]})

\* variant: the attempt is logged before the limit is checked
DenyLogsAttempt(p) ==
    LET c == call[p]
        usage_count == UsageRead(p)
    IN  /\ pc[p] = "check"
        /\ Exceeded(usage_count, c.user_limit)
        /\ pc' = [pc EXCEPT ![p] = "idle"]
        /\ call' = [call EXCEPT ![p] = NoCall]
        /\ last' = Outcome([c EXCEPT !.reads = 1], "denied", Detail429(c, usage_count))
        /\ ledger' = LogUserActivity(ledger, c.user, ActivityType(c.endpoint), now)
        /\ status' = NoStatus
        /\ UNCHANGED <<now, tier, ncalls, lastAdmit, served, probe>>

\* wrapper, lines 105-168: over the limit, raise HTTPException(429); building
\* its detail evaluates user_tier.title(), an AttributeError when user_tier is None
Deny(p) ==
    LET c == call[p]
        usage_count == UsageRead(p)
    IN  /\ pc[p] = "check"
        /\ Exceeded(usage_count, c.user_limit)
        /\ pc' = [pc EXCEPT ![p] = "idle"]
        /\ call' = [call EXCEPT ![p] = NoCall]
        /\ last' = IF c.user_tier = NoneTier
                   THEN Outcome([c EXCEPT !.reads = 1], "error", <<>>)
                   ELSE Outcome([c EXCEPT !.reads = 1], "denied", Detail429(c, usage_count))
        /\ status' = NoStatus
        /\ UNCHANGED <<now, tier, ledger, ncalls, lastAdmit, served, probe>>

\* wrapper, lines 105-117 and 171: under the limit, call func
Admit(p) ==
    LET c == call[p]
        usage_count == UsageRead(p)
        key == <<c.user, c.endpoint, Window(now, DecoratorArgs(c.endpoint).reset_period).start>>
        flying == {q \in Procs \ {p} : /\ pc[q] \in InFlight
                                       /\ call[q].user = c.user
                                       /\ call[q].endpoint = c.endpoint
                                       /\ call[q].user_limit # -1}
    IN  /\ pc[p] = "check"
        /\ ~Exceeded(usage_count, c.user_limit)
        /\ pc' = [pc EXCEPT ![p] = "run"]
        /\ call' = [call EXCEPT ![p] =
              [c EXCEPT !.now = 0, !.start_time = 0, !.reads = 1, !.invoked = TRUE]]
        /\ lastAdmit' = [k \in DOMAIN lastAdmit \cup {key} |->
                            IF k = key THEN Cardinality(flying) ELSE lastAdmit[k]]
        /\ status' = NoStatus
        /\ UNCHANGED <<now, tier, ledger, ncalls, last, served, probe>>

\* variant: a failed count lets the request through
CountFailsOpen(p) ==
    /\ pc[p] = "check"
    /\ pc' = [pc EXCEPT ![p] = "run"]
    /\ call' = [call EXCEPT ![p] =
          [call[p] EXCEPT !.now = 0, !.start_time = 0, !.invoked = TRUE]]
    /\ status' = NoStatus
    /\ UNCHANGED <<now, tier, ledger, ncalls, last, lastAdmit, served, probe>>

\* wrapper, lines 105-114: the count query raises (the database is unavailable)
\* and the exception leaves wrapper
CountFails(p) ==
    /\ pc[p] = "check"
    /\ pc' = [pc EXCEPT ![p] = "idle"]
    /\ call' = [call EXCEPT ![p] = NoCall]
    /\ last' = Outcome(call[p], "unavailable", <<>>)
    /\ status' = NoStatus
    /\ UNCHANGED <<now, tier, ledger, ncalls, lastAdmit, served, probe>>

\* variant: wrapper turns the exception of func into a quota rejection
OpRaiseAsDenied(p, logged) ==
    /\ pc[p] = "run"
    /\ logged => AwaitsAfterLog(call[p].endpoint)
    /\ ledger' = IF logged
                 THEN LogUserActivity(ledger, call[p].user, HandlerActivity(call[p].endpoint), now)
                 ELSE ledger
    /\ pc' = [pc EXCEPT ![p] = "idle"]
    /\ call' = [call EXCEPT ![p] = NoCall]
    /\ last' = Outcome(call[p], "denied", <<>>)
    /\ status' = NoStatus
    /\ UNCHANGED <<now, tier, ncalls, lastAdmit, served, probe>>

\* func returns after logging its own activity row: line 83 returns the result
\* at once, line 171 goes on to log the usage
OpReturn(p) ==
    /\ pc[p] = "run"
    /\ ledger' = LogUserActivity(ledger, call[p].user, HandlerActivity(call[p].endpoint), now)
    /\ IF call[p].user_limit = -1
       THEN /\ pc' = [pc EXCEPT ![p] = "idle"]
            /\ call' = [call EXCEPT ![p] = NoCall]
            /\ last' = Outcome(call[p], "ok", <<>>)
            /\ served' = Serve(p)
       ELSE /\ pc' = [pc EXCEPT ![p] = "log"]
            /\ UNCHANGED <<call, last, served>>
    /\ status' = NoStatus
    /\ UNCHANGED <<now, tier, ncalls, lastAdmit, probe>>

\* variant: the usage row is written in a finally clause
OpRaiseLogsUsage(p, logged) ==
    /\ pc[p] = "run"
    /\ ledger' = LogUserActivity(ledger, call[p].user, ActivityType(call[p].endpoint), now)
    /\ pc' = [pc EXCEPT ![p] = "idle"]
    /\ call' = [call EXCEPT ![p] = NoCall]
    /\ last' = Outcome(call[p], "error", <<>>)
    /\ status' = NoStatus
    /\ UNCHANGED <<now, tier, ncalls, lastAdmit, served, probe>>

\* func raises, before or after it logged its own activity row: the exception
\* leaves wrapper at line 83 or 171
OpRaise(p, logged) ==
    /\ pc[p] = "run"
    /\ logged => AwaitsAfterLog(call[p].endpoint)
    /\ ledger' = IF logged
                 THEN LogUserActivity(ledger, call[p].user, HandlerActivity(call[p].endpoint), now)
                 ELSE ledger
    /\ pc' = [pc EXCEPT ![p] = "idle"]
    /\ call' = [call EXCEPT ![p] = NoCall]
    /\ last' = Outcome(call[p], "error", <<>>)
    /\ status' = NoStatus
    /\ UNCHANGED <<now, tier, ncalls, lastAdmit, served, probe>>

\* func is cancelled (timeout, client disconnect): CancelledError leaves wrapper
OpCancel(p) ==
    /\ pc[p] = "run"
    /\ pc' = [pc EXCEPT ![p] = "idle"]
    /\ call' = [call EXCEPT ![p] = NoCall]
    /\ last' = Outcome(call[p], "cancelled", <<>>)
    /\ status' = NoStatus
    /\ UNCHANGED <<now, tier, ledger, ncalls, lastAdmit, served, probe>>

\* variant: the usage row is written twice
LogUsageTwice(p) ==
    /\ pc[p] = "log"
    /\ ledger' = LogUserActivity(
                     LogUserActivity(ledger, call[p].user, ActivityType(call[p].endpoint), now),
                     call[p].user, ActivityType(call[p].endpoint), now)
    /\ pc' = [pc EXCEPT ![p] = "idle"]
    /\ call' = [call EXCEPT ![p] = NoCall]
    /\ last' = Outcome(call[p], "ok", <<>>)
    /\ served' = Serve(p)
    /\ status' = NoStatus
    /\ UNCHANGED <<now, tier, ncalls, lastAdmit, probe>>

\* wrapper, lines 173-189: log the usage row, return result
LogUsage(p) ==
    /\ pc[p] = "log"
    /\ ledger' = LogUserActivity(ledger, call[p].user, ActivityType(call[p].endpoint), now)
    /\ pc' = [pc EXCEPT ![p] = "idle"]
    /\ call' = [call EXCEPT ![p] = NoCall]
    /\ last' = Outcome(call[p], "ok", <<>>)
    /\ served' = Serve(p)
    /\ status' = NoStatus
    /\ UNCHANGED <<now, tier, ncalls, lastAdmit, probe>>

\* variant: the status request is logged as usage
CheckAiUsageLogs(u, e) ==
    /\ status' = [user |-> u, endpoint |-> e,
                  reads |-> StatusLedgerReads(tier[u], CheckAiUsageArgs),
                  result |-> check_ai_usage_status(u, tier[u], e, ledger, now, CheckAiUsageArgs)]
    /\ ledger' = LogUserActivity(ledger, u, ActivityType(e), now)
    /\ UNCHANGED <<now, tier, pc, call, ncalls, last, lastAdmit, served, probe>>

\* GET /ai-usage/{endpoint_name}: check_ai_usage answers with check_ai_usage_status
CheckAiUsage(u, e) ==
    /\ status' = [user |-> u, endpoint |-> e,
                  reads |-> StatusLedgerReads(tier[u], CheckAiUsageArgs),
                  result |-> check_ai_usage_status(u, tier[u], e, ledger, now, CheckAiUsageArgs)]
    /\ UNCHANGED <<now, tier, ledger, pc, call, ncalls, last, lastAdmit, served, probe>>

Step(p) ==
    \/ Deny(p)
    \/ Admit(p)
    \/ OpReturn(p)
    \/ \E logged \in BOOLEAN : OpRaise(p, logged)
    \/ OpCancel(p)
    \/ LogUsage(p)

\* concurrent request handlers over one ledger
Next ==
    \/ Tick
    \/ \E p \in Procs, u \in Users, e \in Endpoints : Begin(p, u, e)
    \/ \E p \in Procs : Step(p)

Spec == Init /\ [][Next]_vars

\* one request at a time
NextSeq ==
    \/ Tick
    \/ \E p \in Procs, u \in Users, e \in Endpoints : BeginSeq(p, u, e)
    \/ \E p \in Procs : Step(p)

SpecSeq == Init /\ [][NextSeq]_vars

\* concurrent request handlers, with status requests in between
NextStatus ==
    \/ Next
    \/ \E u \in Users, e \in Endpoints : CheckAiUsage(u, e)

SpecStatus == Init /\ [][NextStatus]_vars

\* ------------------------------------------------------ ledger unavailable
\* concurrent request handlers over a ledger whose count query may fail
NextOutage ==
    \/ Next
    \/ \E p \in Procs : CountFails(p)

SpecOutage == Init /\ [][NextOutage]_vars

\* ------------------------------------------------------------ any tier value
\* the second user holds any pricing_tier the column can hold
TierAssignmentsAny ==
    { [u \in Users |-> IF u = 1 THEN "free" ELSE t] :
          t \in {"free", "icon", "platinum", NoneTier} }

InitTier ==
    /\ now = StartNow
    /\ tier \in TierAssignmentsAny
    /\ ledger = EmptyBag
    /\ pc = [p \in Procs |-> "idle"]
    /\ call = [p \in Procs |-> NoCall]
    /\ ncalls = 0
    /\ last = NoOutcome
    /\ lastAdmit = <<>>
    /\ served = EmptyBag
    /\ status = NoStatus
    /\ probe = NoProbe

\* a request arrives when no other request is in flight
BeginTier(p, u, e) ==
    /\ ncalls < MaxCalls
    /\ \A q \in Procs : pc[q] = "idle"
    /\ Enter(p, u, e)

\* a status request arrives when no other request is in flight
CheckAiUsageIdle(u, e) ==
    /\ \A q \in Procs : pc[q] = "idle"
    /\ CheckAiUsage(u, e)

\* one request at a time: enforced calls and status requests
NextTier ==
    \/ Tick
    \/ \E p \in Procs, u \in Users, e \in Endpoints : BeginTier(p, u, e)
    \/ \E p \in Procs : Step(p)
    \/ \E u \in Users, e \in Endpoints : CheckAiUsageIdle(u, e)

SpecTier == InitTier /\ [][NextTier]_vars

\* -------------------------------------------------------- window arithmetic
\* the reset_period values the claims on windows speak of
Periods == {"daily", "weekly", "monthly"}

\* the instants the window arithmetic is evaluated at: every tick of 2024 and 2025
Instants == MakeDt(2024, 1, 1) .. (MakeDt(2026, 1, 1) - 1)

InitWindow ==
    /\ now \in Instants
    /\ tier = [u \in Users |-> "free"]
    /\ ledger = EmptyBag
    /\ pc = [p \in Procs |-> "idle"]
    /\ call = [p \in Procs |-> NoCall]
    /\ ncalls = 0
    /\ last = NoOutcome
    /\ lastAdmit = <<>>
    /\ served = EmptyBag
    /\ status = NoStatus
    /\ probe = NoProbe

\* start_time and reset_time as wrapper (lines 86-99, 122-153) and
\* check_ai_usage_status (lines 235-267) compute them from now
EvaluateWindow(reset_period) ==
    /\ probe' = [reset_period |-> reset_period,
                 now |-> now,
                 start_time |-> WrapperStartTime(now, reset_period),
                 reset_time |-> ResetTime(now, reset_period),
                 status_start_time |-> StatusStartTime(now, reset_period),
                 status_reset_time |-> ResetTime(now, reset_period)]
    /\ UNCHANGED <<now, tier, ledger, pc, call, ncalls, last, lastAdmit, served, status>>

NextWindow == \E reset_period \in Periods : EvaluateWindow(reset_period)

SpecWindow == InitWindow /\ [][NextWindow]_vars

\* ------------------------------------------------- further gated endpoints
\* the arguments fashion_chatbot passes to check_ai_usage_status, items.py 749-758
ChatbotStatusArgs ==
    [reset_period |-> "daily", free_limit |-> 5, spotlight_limit |-> 20,
     elite_limit |-> 50, icon_limit |-> -1]

\* ChatbotResponse of fashion_chatbot, items.py 778-787
ChatbotResponse(usage_stats) ==
    [message_count |-> usage_stats.current_usage + 1,
     remaining_messages |-> IF usage_stats.remaining > 0
                            THEN usage_stats.remaining - 1 ELSE 0]

\* a request for one of the further endpoints arrives when no other request is
\* in flight
BeginGated(p, u, e) ==
    /\ ncalls < MaxSeqCalls
    /\ \A q \in Procs : pc[q] = "idle"
    /\ Enter(p, u, e)

\* generate_monthly_outfit_plans, calendar.py 1259-1266: a free user who already
\* has outfit plans gets {"success": False, "status": 403} as the return value
\* of func, before the handler logs anything; wrapper (171-189, or 83 for an
\* unlimited tier) takes it for a result
OpReturnsFailure(p, current_outfit_plans) ==
    LET c == call[p]
    IN  /\ pc[p] = "run"
        /\ c.endpoint = "generate_monthly_outfit_plans"
        /\ current_outfit_plans > 0
        /\ tier[c.user] = "free"
        /\ ledger' = IF c.user_limit = -1 THEN ledger
                     ELSE LogUserActivity(ledger, c.user, ActivityType(c.endpoint), now)
        /\ pc' = [pc EXCEPT ![p] = "idle"]
        /\ call' = [call EXCEPT ![p] = NoCall]
        /\ last' = Outcome(c, "failure", [success |-> FALSE, status |-> 403])
        /\ status' = NoStatus
        /\ UNCHANGED <<now, tier, ncalls, lastAdmit, served, probe>>

\* fashion_chatbot, items.py 747-787: read the usage status, log the handler's
\* row, answer with the counters derived from the status; wrapper then logs the
\* usage row (171-189) unless the tier is unlimited (83)
ChatbotReturns(p) ==
    LET c == call[p]
        usage_stats == check_ai_usage_status(c.user, tier[c.user], "fashion_chatbot",
                                             ledger, now, ChatbotStatusArgs)
        logged == LogUserActivity(ledger, c.user, HandlerActivity(c.endpoint), now)
    IN  /\ pc[p] = "run"
        /\ c.endpoint = "fashion_chatbot"
        /\ ledger' = IF c.user_limit = -1 THEN logged
                     ELSE LogUserActivity(logged, c.user, ActivityType(c.endpoint), now)
        /\ pc' = [pc EXCEPT ![p] = "idle"]
        /\ call' = [call EXCEPT ![p] = NoCall]
        /\ last' = Outcome(c, "ok", ChatbotResponse(usage_stats))
        /\ served' = Serve(p)
        /\ status' = NoStatus
        /\ UNCHANGED <<now, tier, ncalls, lastAdmit, probe>>

\* the number of outfit plans the handler may find for the user
MaxPlans == 1

\* func of the outfit planner or the camera analysis returns its result
PlainReturn(p) ==
    /\ call[p].endpoint # "fashion_chatbot"
    /\ OpReturn(p)

\* one request at a time for the outfit planner, the chatbot and the camera
\* analysis
NextGated ==
    \/ Tick
    \/ \E p \in Procs, u \in Users, e \in MoreEndpoints : BeginGated(p, u, e)
    \/ \E p \in Procs : Deny(p)
    \/ \E p \in Procs : Admit(p)
    \/ \E p \in Procs : PlainReturn(p)
    \/ \E p \in Procs, n \in 0 .. MaxPlans : OpReturnsFailure(p, n)
    \/ \E p \in Procs : ChatbotReturns(p)
    \/ \E p \in Procs : OpRaise(p, FALSE)
    \/ \E p \in Procs : OpCancel(p)
    \/ \E p \in Procs : LogUsage(p)

SpecGated == Init /\ [][NextGated]_vars

\* ------------------------------------------- failures around the operation
\* variant: a failed append is swallowed and the result returned
LogFailsSilently(p, committed) ==
    /\ pc[p] = "log"
    /\ pc' = [pc EXCEPT ![p] = "idle"]
    /\ call' = [call EXCEPT ![p] = NoCall]
    /\ last' = Outcome(call[p], "ok", <<>>)
    /\ served' = Serve(p)
    /\ status' = NoStatus
    /\ UNCHANGED <<now, tier, ledger, ncalls, lastAdmit, probe>>

\* wrapper, lines 174-187: log_user_activity raises, at db.commit() (the row is
\* not stored) or at db.refresh() after the commit (the row is stored); neither
\* log_user_activity nor wrapper catches it, and line 189 is not reached
LogFails(p, committed) ==
    /\ pc[p] = "log"
    /\ ledger' = IF committed
                 THEN LogUserActivity(ledger, call[p].user, ActivityType(call[p].endpoint), now)
                 ELSE ledger
    /\ pc' = [pc EXCEPT ![p] = "idle"]
    /\ call' = [call EXCEPT ![p] = NoCall]
    /\ last' = Outcome(call[p], "unavailable", <<>>)
    /\ status' = NoStatus
    /\ UNCHANGED <<now, tier, ncalls, lastAdmit, served, probe>>

\* what a call can carry: db and current_user as keyword arguments, a
\* Session-like and a User-like object among the positional arguments
ArgNames == {"db", "current_user"}

\* wrapper, lines 45-59: kwargs.get, then the scan of args when one is missing
FoundDeps(kwargs, args) ==
    LET scan == ~("db" \in kwargs) \/ ~("current_user" \in kwargs)
    IN  [db |-> "db" \in kwargs \/ (scan /\ "db" \in args),
         current_user |-> "current_user" \in kwargs \/ (scan /\ "current_user" \in args)]

\* variant: a call without db or current_user goes on to func
MissingDepsProceeds(u, e, kwargs, args) ==
    LET found == FoundDeps(kwargs, args)
    IN  /\ ncalls < MaxCalls
        /\ \A q \in Procs : pc[q] = "idle"
        /\ ~found.db \/ ~found.current_user
        /\ ncalls' = ncalls + 1
        /\ pc' = [pc EXCEPT ![1] = "run"]
        /\ call' = [call EXCEPT ![1] =
              [NoCall EXCEPT !.user = u, !.endpoint = e, !.user_tier = tier[u],
                             !.user_limit = -1, !.invoked = TRUE]]
        /\ probe' = [reset_period |-> "", request |-> ncalls + 1,
                     kwargs |-> kwargs, args |-> args]
        /\ status' = NoStatus
        /\ UNCHANGED <<now, tier, ledger, last, lastAdmit, served>>

\* wrapper, lines 45-66: a call arrives in which db or current_user is found
\* neither in kwargs nor in args: HTTPException(500)
MissingDeps(u, e, kwargs, args) ==
    LET found == FoundDeps(kwargs, args)
    IN  /\ ncalls < MaxCalls
        /\ \A q \in Procs : pc[q] = "idle"
        /\ ~found.db \/ ~found.current_user
        /\ ncalls' = ncalls + 1
        /\ last' = [user |-> IF found.current_user THEN u ELSE 0, endpoint |-> e,
                    result |-> "error", invoked |-> FALSE, reads |-> 0,
                    detail |-> [status_code |-> 500]]
        /\ probe' = [reset_period |-> "", request |-> ncalls + 1,
                     kwargs |-> kwargs, args |-> args]
        /\ status' = NoStatus
        /\ UNCHANGED <<now, tier, ledger, pc, call, lastAdmit, served>>

\* one request at a time; the append of the usage row may fail, and a call may
\* lack db or current_user
NextFaults ==
    \/ Tick
    \/ \E p \in Procs, u \in Users, e \in Endpoints : BeginTier(p, u, e)
    \/ \E p \in Procs : Step(p)
    \/ \E p \in Procs, committed \in BOOLEAN : LogFails(p, committed)
    \/ \E u \in Users, e \in Endpoints, kwargs \in SUBSET ArgNames,
          args \in SUBSET ArgNames : MissingDeps(u, e, kwargs, args)

SpecFaults == Init /\ [][NextFaults]_vars

\* the values reset_period is given: the three the code names and one other string
AnyPeriods == Periods \cup {"yearly"}

NextAnyPeriod == \E reset_period \in AnyPeriods : EvaluateWindow(reset_period)

SpecAnyPeriod == InitWindow /\ [][NextAnyPeriod]_vars

\* ------------------------------------------------------------- properties
\* usage rows of user u for endpoint e stamped in [lo, hi)
RowsIn(u, e, lo, hi) ==
    BagSum(ledger, {r \in BagToSet(ledger) :
                       /\ r.user_id = u
                       /\ r.activity_type = ActivityTypes[e]
                       /\ lo <= r.timestamp
                       /\ r.timestamp < hi})

\* all usage rows of user u for endpoint e
RowsOf(u, e) == RowsIn(u, e, 0, MaxNow + 1)

\* requests of user u for endpoint e that returned func's result in [lo, hi)
ServedIn(u, e, lo, hi) ==
    BagSum(served, {r \in BagToSet(served) :
                       r.user = u /\ r.endpoint = e /\ lo <= r.at /\ r.at < hi})

ServedOf(u, e) == ServedIn(u, e, 0, MaxNow + 1)

PeriodOf(e) == DecoratorArgs(e).reset_period

\* C1: with one request at a time and a finite limit L, a request is admitted
\* exactly when fewer than L requests of the same user and endpoint have
\* succeeded in the window of its now, and is denied with 429 otherwise; so
\* the first L successes of a window are admitted, the next request of that
\* window is denied, and the first request after the reset is admitted again.
C1_FirstLThenDeniedUntilReset ==
    [][\A p \in Procs :
        (pc[p] = "check" /\ pc'[p] # "check") =>
            LET c == call[p]
                w == Window(c.now, PeriodOf(c.endpoint))
                n == ServedIn(c.user, c.endpoint, w.start, w.end)
            IN  IF n < c.user_limit
                THEN pc'[p] = "run"
                ELSE pc'[p] = "idle" /\ last'.result = "denied"]_vars

\* a request denied at the limit, and the next request of that user and
\* endpoint admitted once the reset time of the denial has passed
C1_Witness ==
    \E p \in Procs :
        /\ last.result = "denied"
        /\ last.detail.limit >= 1
        /\ last.detail.current_usage = last.detail.limit
        /\ pc[p] = "run" /\ call[p].reads = 1
        /\ call[p].user = last.user /\ call[p].endpoint = last.endpoint
        /\ now >= last.detail.reset_time
        /\ RowsOf(last.user, last.endpoint) = last.detail.limit

\* C2: a usage row is appended only for a request whose func has returned:
\* the usage rows of a user and endpoint never outnumber the requests that
\* succeeded, so requests that raised or were cancelled leave the count at 0.
C2_FailedAttemptsAreFree ==
    \A u \in Users, e \in Endpoints : RowsOf(u, e) <= ServedOf(u, e)

\* a request failed or was cancelled, no usage is counted, and the next
\* request of that user and endpoint is about to be checked with a count of 0
C2_Witness ==
    \E p \in Procs :
        /\ last.result \in {"error", "cancelled"}
        /\ pc[p] = "check"
        /\ call[p].user = last.user /\ call[p].endpoint = last.endpoint
        /\ RowsOf(call[p].user, call[p].endpoint) = 0
        /\ ~Exceeded(UsageRead(p), call[p].user_limit)

\* C3: every request that returns func's result has appended exactly one usage
\* row for its user and endpoint, whatever the tier: usage rows and successful
\* requests are equal in number.
C3_OneUsageRowPerSuccess ==
    \A u \in Users, e \in Endpoints : RowsOf(u, e) = ServedOf(u, e)

\* C4: the step that denies a request ends it with the 429 rejection without
\* func having been invoked, and changes nothing but that request's own record.
C4_DenialHasNoSideEffects ==
    [][\A p \in Procs :
        (pc[p] = "check" /\ pc'[p] = "idle") =>
            /\ last'.result = "denied" /\ ~last'.invoked
            /\ ledger' = ledger /\ tier' = tier /\ now' = now
            /\ served' = served /\ lastAdmit' = lastAdmit
            /\ \A q \in Procs \ {p} : pc'[q] = pc[q] /\ call'[q] = call[q]]_vars

\* a request was denied with the count at its limit
C4_Witness ==
    /\ last.result = "denied" /\ ~last.invoked
    /\ last.detail.current_usage >= last.detail.limit
    /\ RowsOf(last.user, last.endpoint) >= last.detail.limit

\* the limit the decorator of endpoint e resolves for user u
LimitOf(u, e) == TierLimit(DecoratorArgs(e), tier[u])

\* the windows of endpoint e that the clock of the model passes through
WindowTable == [e \in Endpoints |-> {Window(t, PeriodOf(e)) : t \in StartNow .. MaxNow}]

WindowsOf(e) == WindowTable[e]

\* requests of user u for endpoint e that were admitted and have not logged yet
InFlightOf(u, e) ==
    {p \in Procs : pc[p] \in InFlight /\ call[p].user = u /\ call[p].endpoint = e}

\* C5: for a finite limit L, concurrent requests of one user for one endpoint
\* never have more than L of them executing func, and no window ever holds
\* more than L usage rows.
C5_AtMostLimitUnderConcurrency ==
    \A u \in Users, e \in Endpoints :
        LimitOf(u, e) # -1 =>
            /\ Cardinality(InFlightOf(u, e)) <= LimitOf(u, e)
            /\ \A w \in WindowsOf(e) : RowsIn(u, e, w.start, w.end) <= LimitOf(u, e)

\* requests in flight when the last request of (u, e) was admitted, among the
\* admissions made before the window starting at ws was over
LastInFlight(u, e, ws) ==
    LET ks == {k \in DOMAIN lastAdmit : k[1] = u /\ k[2] = e /\ k[3] <= ws}
    IN  IF ks = {} THEN 0
        ELSE lastAdmit[CHOOSE k \in ks : \A j \in ks : j[3] <= k[3]]

\* C6: for a finite limit L, the usage rows of one user and endpoint in one
\* window never exceed L plus the number of requests that were admitted but
\* not yet recorded when the last request admitted up to that window was
\* evaluated.
C6_OverAdmissionBounded ==
    \A u \in Users, e \in Endpoints :
        LimitOf(u, e) # -1 =>
            \A w \in WindowsOf(e) :
                RowsIn(u, e, w.start, w.end) <= LimitOf(u, e) + LastInFlight(u, e, w.start)

\* a window holds more usage rows than the limit, exactly as many as the
\* requests in flight at the last admission allow
C6_Witness ==
    \E u \in Users, e \in Endpoints : \E w \in WindowsOf(e) :
        /\ LimitOf(u, e) >= 1
        /\ LastInFlight(u, e, w.start) >= 1
        /\ RowsIn(u, e, w.start, w.end) = LimitOf(u, e) + LastInFlight(u, e, w.start)

\* C7: a request of a user whose limit is -1 never reads the ledger and always
\* invokes func, and the status computed for such a user reads no ledger row
\* and has unlimited = true and allowed = true.
C7_UnlimitedSkipsLedger ==
    /\ \A p \in Procs :
          (pc[p] # "idle" /\ call[p].user_limit = -1) =>
              call[p].reads = 0 /\ call[p].invoked
    /\ (last.user # 0 /\ LimitOf(last.user, last.endpoint) = -1) =>
          last.reads = 0 /\ last.invoked /\ last.result # "denied"
    /\ (status.user # 0 /\ TierLimit(CheckAiUsageArgs, tier[status.user]) = -1) =>
          /\ status.reads = 0
          /\ status.result.unlimited
          /\ "allowed" \in DOMAIN status.result
          /\ status.result.allowed

\* C8: every status has allowed = (unlimited or used < limit), and the wrapper
\* invokes func exactly when that holds of the count it read.
C8_AllowedIffUnderLimit ==
    /\ [](status.user # 0 =>
             /\ "allowed" \in DOMAIN status.result
             /\ status.result.allowed =
                   (status.result.unlimited
                       \/ status.result.current_usage < status.result.limit))
    /\ [][\A p \in Procs :
             /\ (pc[p] = "check" /\ pc'[p] # "check") =>
                   (call'[p].invoked <=> UsageRead(p) < call[p].user_limit)
             /\ (pc[p] = "idle" /\ pc'[p] # "idle") =>
                   (call'[p].invoked <=> call'[p].user_limit = -1)]_vars

\* C9: the count a request is about to read is the number of usage rows of
\* its user and endpoint stamped in [start, end) of the window of its now.
C9_CountIsWindowContent ==
    \A p \in Procs :
        pc[p] = "check" =>
            LET c == call[p]
                w == Window(c.now, PeriodOf(c.endpoint))
            IN  UsageRead(p) = RowsIn(c.user, c.endpoint, w.start, w.end)

\* the window starts a count may be taken from
CountStarts == {w.start : w \in UNION {WindowTable[e] : e \in Endpoints}}

\* C10: the usage counted for a user and endpoint in a window changes only
\* when a request of that same user and endpoint logs its usage; rows of other
\* endpoints, of other users and of the handlers leave it as it was.
C10_UsageIsPerUserAndAction ==
    [][ledger' # ledger =>
          \A u \in Users, e \in Endpoints, s \in CountStarts :
              CountUsage(ledger', u, ActivityType(e), s) # CountUsage(ledger, u, ActivityType(e), s)
                  => \E p \in Procs : /\ pc[p] = "log" /\ pc'[p] = "idle"
                                      /\ call[p].user = u /\ call[p].endpoint = e]_vars

\* a request is about to read a count of 0 while the ledger holds, in its
\* window, a usage row of the same user for another endpoint
C10_Witness ==
    \E p \in Procs : \E r \in BagToSet(ledger) :
        /\ pc[p] = "check" /\ UsageRead(p) = 0
        /\ r.user_id = call[p].user
        /\ r.activity_type \in {ActivityType(e) : e \in Endpoints \ {call[p].endpoint}}
        /\ r.timestamp >= call[p].start_time

\* ---------------------------------------------------- properties of windows
\* whether instants t1 and t2 lie in the same day, week (Monday to Sunday) or
\* calendar month
SameWindow(t1, t2, reset_period) ==
    IF reset_period = "daily" THEN DayNo(t1) = DayNo(t2)
    ELSE IF reset_period = "weekly" THEN DayNo(t1) \div 7 = DayNo(t2) \div 7
    ELSE DtYear(t1) = DtYear(t2) /\ DtMonth(t1) = DtMonth(t2)

\* the instants within 31 days of t
Near(t) == {x \in Instants : t - 31 * TicksPerDay <= x /\ x <= t + 31 * TicksPerDay}

\* C11: the reset time of an evaluation is the end of the window that holds
\* now: it lies after now, it is the first instant outside that window, and
\* every other instant of the window gives the same reset time, in the wrapper
\* and in check_ai_usage_status.
C11_ResetIsWindowEnd ==
    probe.reset_period # "" =>
        /\ probe.now < probe.reset_time
        /\ SameWindow(probe.reset_time - 1, probe.now, probe.reset_period)
        /\ ~SameWindow(probe.reset_time, probe.now, probe.reset_period)
        /\ probe.status_reset_time = probe.reset_time
        /\ \A t \in Near(probe.now) :
              SameWindow(t, probe.now, probe.reset_period) =>
                  ResetTime(t, probe.reset_period) = probe.reset_time

\* an evaluation made inside a week, after its first instant and before its last
C11_Witness ==
    /\ probe.reset_period = "weekly"
    /\ probe.now = MakeDt(2024, 3, 13) + 1
    /\ probe.reset_time = MakeDt(2024, 3, 18)
    /\ ResetTime(MakeDt(2024, 3, 17) + 1, "weekly") = probe.reset_time

\* C12: the weekly start is 00:00 of the Monday on or before now and the reset
\* is 7 days after the start, also when now is a Monday at 00:00; Wednesday
\* 2024-03-13 gives 2024-03-11 and 2024-03-18.
C12_WeeklyWindow ==
    probe.reset_period = "weekly" =>
        /\ probe.start_time = Midnight(probe.start_time)
        /\ Weekday(probe.start_time) = 0
        /\ probe.start_time <= probe.now
        /\ probe.now < PlusDays(probe.start_time, 7)
        /\ probe.reset_time = PlusDays(probe.start_time, 7)
        /\ probe.status_start_time = probe.start_time
        /\ probe.status_reset_time = probe.reset_time
        /\ DayNo(probe.now) = DayNo(MakeDt(2024, 3, 13)) =>
              /\ probe.start_time = MakeDt(2024, 3, 11)
              /\ probe.reset_time = MakeDt(2024, 3, 18)

\* an evaluation at 00:00 of a Monday
C12_Witness ==
    /\ probe.reset_period = "weekly"
    /\ probe.now = MakeDt(2024, 3, 11)
    /\ probe.start_time = probe.now
    /\ probe.reset_time = PlusDays(probe.now, 7)

\* C13: the monthly start is 00:00 of the 1st of now's month and the reset is
\* 00:00 of the 1st of the month after it, the year advancing after December,
\* whatever the length of the month; 2024-12-20 gives 2024-12-01 and 2025-01-01.
C13_MonthlyWindow ==
    probe.reset_period = "monthly" =>
        LET y == DtYear(probe.now)
            m == DtMonth(probe.now)
        IN  /\ probe.start_time = Midnight(probe.start_time)
            /\ DtYear(probe.start_time) = y
            /\ DtMonth(probe.start_time) = m
            /\ DtDay(probe.start_time) = 1
            /\ probe.reset_time = PlusDays(probe.start_time, DaysInMonth(y, m))
            /\ DtDay(probe.reset_time) = 1
            /\ DtMonth(probe.reset_time) = (IF m = 12 THEN 1 ELSE m + 1)
            /\ DtYear(probe.reset_time) = (IF m = 12 THEN y + 1 ELSE y)
            /\ probe.status_start_time = probe.start_time
            /\ probe.status_reset_time = probe.reset_time
            /\ DayNo(probe.now) = DayNo(MakeDt(2024, 12, 20)) =>
                  /\ probe.start_time = MakeDt(2024, 12, 1)
                  /\ probe.reset_time = MakeDt(2025, 1, 1)

\* an evaluation in December: the reset is in the next year
C13_Witness ==
    /\ probe.reset_period = "monthly"
    /\ probe.now = MakeDt(2024, 12, 20)
    /\ probe.start_time = MakeDt(2024, 12, 1)
    /\ probe.reset_time = MakeDt(2025, 1, 1)

\* C14: the daily start is now truncated to 00:00 of its day and the reset is
\* one day after the start; 2024-03-15 after midnight gives 2024-03-15 and
\* 2024-03-16.
C14_DailyWindow ==
    probe.reset_period = "daily" =>
        /\ probe.start_time = Midnight(probe.start_time)
        /\ DayNo(probe.start_time) = DayNo(probe.now)
        /\ probe.start_time <= probe.now
        /\ probe.reset_time = PlusDays(probe.start_time, 1)
        /\ probe.status_start_time = probe.start_time
        /\ probe.status_reset_time = probe.reset_time
        /\ DayNo(probe.now) = DayNo(MakeDt(2024, 3, 15)) =>
              /\ probe.start_time = MakeDt(2024, 3, 15)
              /\ probe.reset_time = MakeDt(2024, 3, 16)

\* an evaluation after midnight of 2024-03-15
C14_Witness ==
    /\ probe.reset_period = "daily"
    /\ probe.now = MakeDt(2024, 3, 15) + 1
    /\ probe.start_time = MakeDt(2024, 3, 15)
    /\ probe.reset_time = MakeDt(2024, 3, 16)

\* ------------------------------------------------------ properties of tiers
\* C15: a user whose tier is not a key of tier_limits is held to the free limit
\* of the action: the wrapper resolves free_limit without failing and invokes
\* func exactly when the count it reads is below free_limit, and the status
\* reports that limit, not unlimited, with allowed against it.
C15_UnknownTierIsFree ==
    [][/\ \A p \in Procs :
             (pc[p] = "idle" /\ pc'[p] # "idle" /\ call'[p].user_tier \notin KnownTiers) =>
                 /\ pc'[p] = "check"
                 /\ call'[p].user_limit = DecoratorArgs(call'[p].endpoint).free_limit
       /\ \A p \in Procs :
             (pc[p] = "check" /\ pc'[p] # "check" /\ call[p].user_tier \notin KnownTiers) =>
                 /\ call[p].user_limit = DecoratorArgs(call[p].endpoint).free_limit
                 /\ pc'[p] = "run" <=> UsageRead(p) < DecoratorArgs(call[p].endpoint).free_limit
                 /\ pc'[p] # "run" => ~last'.invoked /\ ledger' = ledger
       /\ (status'.user # 0 /\ tier[status'.user] \notin KnownTiers) =>
             /\ ~status'.result.unlimited
             /\ status'.result.limit = CheckAiUsageArgs.free_limit
             /\ status'.result.allowed =
                   (status'.result.current_usage < CheckAiUsageArgs.free_limit)]_vars

\* a user of an unknown tier was served once and then refused at the free limit
C15_Witness ==
    /\ last.result = "denied"
    /\ last.detail.current_tier = "platinum"
    /\ last.detail.limit = DecoratorArgs(last.endpoint).free_limit
    /\ last.detail.current_usage = last.detail.limit
    /\ ServedOf(last.user, last.endpoint) = last.detail.limit

\* ------------------------------------------------- properties of the status
\* C16: a status request writes nothing: the step that answers it leaves the
\* ledger, the tiers, the clock and every enforced request as they were, so
\* the requests that follow find what they would have found without it.
C16_StatusWritesNothing ==
    [][status' # NoStatus =>
          UNCHANGED <<now, tier, ledger, pc, call, ncalls, last, lastAdmit, served>>]_vars

\* a status was answered after a request had been served and counted
C16_Witness ==
    /\ status.user # 0
    /\ ~status.result.unlimited
    /\ status.result.current_usage = 1
    /\ RowsOf(status.user, status.endpoint) = 1
    /\ ncalls < MaxCalls

\* C17: for a finite limit the remaining count of a status is
\* max(0, limit - used): limit - used when that is positive, otherwise 0, and
\* so never negative, also when used is above the limit.
C17_RemainingNeverNegative ==
    (status.user # 0 /\ ~status.result.unlimited) =>
        LET r == status.result
        IN  /\ r.remaining >= 0
            /\ r.remaining >= r.limit - r.current_usage
            /\ r.remaining = 0 \/ r.remaining = r.limit - r.current_usage

\* a status whose used count is above its limit
C17_Witness ==
    /\ status.user # 0
    /\ ~status.result.unlimited
    /\ status.result.current_usage > status.result.limit
    /\ status.result.remaining = 0

\* C18: every status, of a finite and of the unlimited tier, has
\* remaining = max(0, limit - used), a count that is not negative.
C18_RemainingOfEveryTier ==
    status.user # 0 =>
        LET r == status.result
        IN  /\ r.remaining >= 0
            /\ r.remaining >= r.limit - r.current_usage
            /\ r.remaining = 0 \/ r.remaining = r.limit - r.current_usage

\* ------------------------------------------------------ properties of errors
\* C19: a request whose count query fails is refused: func is invoked only by
\* a request that has read its count, and the step in which the query fails
\* ends the request without func invoked and without a row appended.
C19_CountFailureFailsClosed ==
    [][\A p \in Procs :
          (pc[p] = "check" /\ pc'[p] # "check") =>
              /\ pc'[p] = "run" => call'[p].reads = 1 /\ ~Exceeded(UsageRead(p), call[p].user_limit)
              /\ (pc'[p] = "idle" /\ last'.result # "denied") =>
                    /\ last'.result = "unavailable"
                    /\ ~last'.invoked
                    /\ ledger' = ledger
                    /\ served' = served]_vars

\* the count query of a request failed: nothing was invoked, served or logged
C19_Witness ==
    /\ last.result = "unavailable"
    /\ ~last.invoked
    /\ RowsOf(last.user, last.endpoint) = 0
    /\ ServedOf(last.user, last.endpoint) = 0

\* C20: when func raises after admission the request ends with that error and
\* not with a quota rejection, and the step adds no row to the ledger but the
\* one func itself may have logged.
C20_OperationErrorPassesThrough ==
    [][\A p \in Procs :
          (pc[p] = "run" /\ pc'[p] = "idle" /\ served' = served) =>
              /\ last'.result \in {"error", "cancelled"}
              /\ last'.detail = <<>>
              /\ last'.invoked
              /\ \/ ledger' = ledger
                 \/ ledger' = LogUserActivity(ledger, call[p].user,
                                              HandlerActivity(call[p].endpoint), now)]_vars

\* func raised after it was admitted and had logged its own row: the ledger
\* holds that row and no usage row
C20_Witness ==
    /\ last.result = "error"
    /\ last.invoked
    /\ last.reads = 1
    /\ ledger # EmptyBag
    /\ RowsOf(last.user, last.endpoint) = 0

\* ------------------------------------------------- properties of rejections
\* the message the rejection is specified to carry
QuotaMessage(period, used, limit) ==
    period \o " usage limit reached (" \o ToString(used) \o "/" \o ToString(limit) \o " used)"

\* what may follow the specified message
MessageTails ==
    {"", "."} \cup
    {". Upgrade to " \o TierName(t) \o " tier for more AI calls." : t \in KnownTiers}

\* C21: a quota rejection carries the count that was read, the resolved limit,
\* the end of the window of the request's now as reset time, the tier, the
\* action name and a message "{period} usage limit reached ({used}/{limit}
\* used)", and its count is at or above its limit.
C21_RejectionPayload ==
    [][\A p \in Procs :
          (pc[p] = "check" /\ pc'[p] = "idle" /\ last'.result = "denied") =>
              LET d == last'.detail
                  c == call[p]
                  rp == PeriodOf(c.endpoint)
              IN  /\ d.current_usage = UsageRead(p)
                  /\ d.limit = TierLimit(DecoratorArgs(c.endpoint), tier[c.user])
                  /\ d.current_usage >= d.limit
                  /\ d.reset_time = Window(c.now, rp).end
                  /\ d.current_tier = tier[c.user]
                  /\ d.endpoint = c.endpoint
                  /\ \E period \in {rp, Title(rp)}, tail \in MessageTails :
                        d.message = QuotaMessage(period, d.current_usage, d.limit) \o tail]_vars

\* C22: a protected operation that reports failure by returning an error value
\* (generate_monthly_outfit_plans answering success = False, status 403) records
\* no usage event: the user's usage rows for the endpoint are what they were
C22_ReturnedFailureIsFree ==
    [][\A p \in Procs :
          (pc[p] = "run" /\ pc'[p] = "idle" /\ last'.result = "failure") =>
              CountUsage(ledger', call[p].user, ActivityType(call[p].endpoint), 0)
                  = CountUsage(ledger, call[p].user, ActivityType(call[p].endpoint), 0)]_vars

\* C23: the status the status endpoint reports for a gated action carries that
\* action's own limit for the user's tier, and says the call is allowed exactly
\* when the wrapper of that action would admit it at the same instant over the
\* same ledger
C23_StatusMatchesEnforcement ==
    status.user # 0 =>
        LET r == status.result
            cfg == DecoratorArgs(status.endpoint)
            user_limit == TierLimit(cfg, tier[status.user])
            usage_count == CountUsage(ledger, status.user, ActivityType(status.endpoint),
                                      WrapperStartTime(now, cfg.reset_period))
            admits == user_limit = -1 \/ ~Exceeded(usage_count, user_limit)
            allowed == IF "allowed" \in DOMAIN r THEN r.allowed ELSE r.unlimited
        IN  /\ r.limit = user_limit
            /\ allowed = admits

\* C24: when appending the usage row fails after func has returned, the request
\* does not end as a served one: a request that ends with func's result has its
\* usage row appended, and one whose row is not appended ends with the failure
\* and is not counted as served
C24_FailedAppendIsSurfaced ==
    [][\A p \in Procs :
          (pc[p] = "log" /\ pc'[p] = "idle") =>
              LET before == CountUsage(ledger, call[p].user, ActivityType(call[p].endpoint), 0)
                  after == CountUsage(ledger', call[p].user, ActivityType(call[p].endpoint), 0)
              IN  /\ last'.result = "ok" => after = before + 1
                  /\ after = before => last'.result = "unavailable" /\ served' = served]_vars

\* func had returned, the usage row was not stored, the request ended in failure
C24_Witness ==
    /\ last.result = "unavailable"
    /\ last.invoked
    /\ CountUsage(ledger, last.user, ActivityType(last.endpoint), 0) = 0
    /\ served = EmptyBag

\* C30: a call in which the wrapper finds no db session or no current user,
\* among the keyword and the positional arguments, ends with the 500 error
\* before the tier is resolved or the ledger read: func is not invoked, no
\* handler starts, and the ledger is what it was
C30_MissingDependenciesFail ==
    [][(/\ ncalls' = ncalls + 1
        /\ "request" \in DOMAIN probe'
        /\ probe'.request = ncalls'
        /\ \E name \in ArgNames : name \notin (probe'.kwargs \cup probe'.args)) =>
            /\ last'.result = "error"
            /\ last'.detail.status_code = 500
            /\ ~last'.invoked
            /\ last'.reads = 0
            /\ ledger' = ledger
            /\ pc' = pc
            /\ call' = call
            /\ served' = served]_vars

\* after a served call, a call that carries db but no current user got the 500
C30_Witness ==
    /\ "request" \in DOMAIN probe
    /\ probe.request = ncalls
    /\ probe.kwargs = {"db"}
    /\ probe.args = {}
    /\ last.result = "error"
    /\ last.user = 0
    /\ ledger # EmptyBag

\* C25: for every value of reset_period, the three named ones and any other
\* string, the wrapper and check_ai_usage_status compute the same window start
\* and the same reset time from the same instant, hence count the same rows
C25_WrapperAndStatusAgree ==
    probe.reset_period # "" =>
        /\ probe.start_time = probe.status_start_time
        /\ probe.reset_time = probe.status_reset_time

\* C26: for every instant and each of the daily, weekly and monthly periods the
\* window holds its instant, start <= now < reset; the window computed at the
\* reset instant starts at that instant, and the window before ends where this
\* one starts: consecutive windows leave no gap and do not overlap
C26_WindowsTileTime ==
    probe.reset_period # "" =>
        LET rp == probe.reset_period
        IN  /\ probe.start_time <= probe.now
            /\ probe.now < probe.reset_time
            /\ probe.status_start_time <= probe.now
            /\ probe.now < probe.status_reset_time
            /\ WrapperStartTime(probe.reset_time, rp) = probe.reset_time
            /\ StatusStartTime(probe.status_reset_time, rp) = probe.status_reset_time
            /\ ResetTime(probe.start_time, rp) = probe.reset_time
            /\ probe.start_time > 0 =>
                  /\ ResetTime(probe.start_time - 1, rp) = probe.start_time
                  /\ WrapperStartTime(probe.start_time - 1, rp) < probe.start_time
                  /\ StatusStartTime(probe.start_time - 1, rp) < probe.start_time

\* the last instant of February 2024: the window is the month, the next starts
\* on 1 March
C26_Witness ==
    /\ probe.reset_period = "monthly"
    /\ probe.now = MakeDt(2024, 3, 1) - 1
    /\ probe.start_time = MakeDt(2024, 2, 1)
    /\ probe.reset_time = MakeDt(2024, 3, 1)
    /\ WrapperStartTime(probe.reset_time, "monthly") = MakeDt(2024, 3, 1)

\* C28: a request of a user whose tier is none of the four known ones, a null
\* tier included, that finds the free limit used up ends with the 429 rejection
\* carrying the usage, the limit and the reset time, and func is not invoked
C28_UnknownTierRejectedWith429 ==
    [][\A p \in Procs :
          (/\ pc[p] = "check"
           /\ pc'[p] # "check"
           /\ tier[call[p].user] \notin KnownTiers
           /\ Exceeded(UsageRead(p), call[p].user_limit)) =>
              /\ pc'[p] = "idle"
              /\ ~last'.invoked
              /\ last'.result = "denied"
              /\ last'.detail.current_usage = UsageRead(p)
              /\ last'.detail.limit = DecoratorArgs(call[p].endpoint).free_limit
              /\ last'.detail.reset_time = ResetTime(call[p].now, PeriodOf(call[p].endpoint))]_vars

\* C29: for an action whose resolved limit is 0 (the free tier on the camera
\* analysis) every request is denied, in every window, with used = 0 and
\* limit = 0; func is never invoked for it and no usage row of the user for the
\* action exists, before or after the request
C29_ZeroLimitAlwaysDenied ==
    [][\A p \in Procs :
          /\ pc'[p] \in InFlight => call'[p].user_limit # 0
          /\ (pc[p] = "check" /\ pc'[p] # "check" /\ call[p].user_limit = 0) =>
                /\ pc'[p] = "idle"
                /\ last'.result = "denied"
                /\ last'.detail.current_usage = 0
                /\ last'.detail.limit = 0
                /\ ~last'.invoked
                /\ ledger' = ledger
                /\ CountUsage(ledger', call[p].user, ActivityType(call[p].endpoint), 0) = 0]_vars

\* the second camera request of a free user, made after the month has turned,
\* is denied like the first
C29_Witness ==
    /\ ncalls = 2
    /\ ledger = EmptyBag
    /\ last.result = "denied"
    /\ last.endpoint = "analyze_camera_capture"
    /\ last.detail.limit = 0
    /\ last.detail.current_usage = 0
    /\ last.detail.reset_time = MakeDt(2025, 2, 1)

\* C27: after a served chatbot call made while no other call is in flight, the
\* message_count and remaining_messages of the response are the current_usage
\* and remaining check_ai_usage_status reports right after the call, for a
\* finite and for the unlimited tier
C27_ChatbotCountersMatchStatus ==
    [][\A p \in Procs :
          (/\ pc[p] = "run"
           /\ pc'[p] = "idle"
           /\ call[p].endpoint = "fashion_chatbot"
           /\ last'.result = "ok") =>
              LET after == check_ai_usage_status(call[p].user, tier[call[p].user],
                                                 "fashion_chatbot", ledger', now',
                                                 ChatbotStatusArgs)
              IN  /\ last'.detail.message_count = after.current_usage
                  /\ last'.detail.remaining_messages = after.remaining]_vars

====
